---------------------------- MODULE Spec2Model ----------------------------
(***************************************************************************)
(* Model of extract_filetype_from_zip (src/src/main.rs).                   *)
(*                                                                         *)
(* main creates the output directory, normalises the extension filter,    *)
(* resolves the input path (directory of archives, single archive, or      *)
(* neither) and calls process_zip_file once per archive;                   *)
(* process_zip_file walks the archive's entries by index and copies every  *)
(* selected entry to output_dir/<file name>.                               *)
(*                                                                         *)
(* Strings are sequences of one-character strings, so that the path and    *)
(* case conversions of the program are computed, not assumed.  An          *)
(* Option<T> is a set with at most one element: None is {} and Some(v) is  *)
(* {v}.  Paths follow the Unix rules of std::path ('/' is the separator).  *)
(***************************************************************************)
EXTENDS Naturals, Sequences, FiniteSets

(* ------------------------------ bounds -------------------------------- *)

\* Largest number of directory entries read_dir yields in one run.
MaxItems == 2

\* Largest number of entries (archive.len()) of one archive.
MaxEntries == 2

(* ------------------------- strings and paths --------------------------- *)

UpperChars == <<"A","B","C","D","E","F","G","H","I","J","K","L","M",
                "N","O","P","Q","R","S","T","U","V","W","X","Y","Z">>

LowerChars == <<"a","b","c","d","e","f","g","h","i","j","k","l","m",
                "n","o","p","q","r","s","t","u","v","w","x","y","z">>

\* char::to_lowercase / to_ascii_lowercase on the letters of the model.
CharLower(c) ==
    IF \E k \in 1..26 : UpperChars[k] = c
    THEN LowerChars[CHOOSE k \in 1..26 : UpperChars[k] = c]
    ELSE c

\* str::to_lowercase
to_lowercase(s) == [k \in 1..Len(s) |-> CharLower(s[k])]

\* str::eq_ignore_ascii_case
eq_ignore_ascii_case(s, t) ==
    /\ Len(s) = Len(t)
    /\ \A k \in 1..Len(s) : CharLower(s[k]) = CharLower(t[k])

\* str::trim_start_matches(c): every leading occurrence of c is removed.
RECURSIVE trim_start_matches(_, _)
trim_start_matches(s, c) ==
    IF s # <<>> /\ Head(s) = c THEN trim_start_matches(Tail(s), c) ELSE s

\* str::contains(pat)
contains(s, pat) ==
    \E k \in 1..(Len(s) + 1) :
        /\ k + Len(pat) - 1 <= Len(s)
        /\ SubSeq(s, k, k + Len(pat) - 1) = pat

\* The pieces of s between the occurrences of the separator sep.
RECURSIVE Split(_, _)
Split(s, sep) ==
    IF \E k \in 1..Len(s) : s[k] = sep
    THEN LET k == CHOOSE j \in 1..Len(s) :
                      s[j] = sep /\ \A h \in 1..(j - 1) : s[h] # sep
         IN  <<SubSeq(s, 1, k - 1)>> \o Split(SubSeq(s, k + 1, Len(s)), sep)
    ELSE <<s>>

\* Path::components, without the root and a leading "." (neither is ever a
\* file name): repeated separators and "." pieces are dropped.
Components(p) ==
    SelectSeq(Split(p, "/"), LAMBDA seg : seg # <<>> /\ seg # <<".">>)

\* Path::file_name: the last component when it is a normal one; None for
\* an empty path, the root, or a path that ends in "..".
file_name(p) ==
    LET c == Components(p)
    IN  IF c = <<>> \/ c[Len(c)] = <<".", ".">> THEN {} ELSE {c[Len(c)]}

\* Position of the last "." of f, 0 when there is none.
LastDot(f) ==
    IF \E k \in 1..Len(f) : f[k] = "."
    THEN CHOOSE k \in 1..Len(f) :
             f[k] = "." /\ \A h \in (k + 1)..Len(f) : f[h] # "."
    ELSE 0

\* Path::extension: the part of file_name after its last ".", None when
\* there is no file name, no ".", or the only "." is the first character.
extension(p) ==
    IF file_name(p) = {} THEN {}
    ELSE LET f == CHOOSE x \in file_name(p) : TRUE
             k == LastDot(f)
         IN  IF k <= 1 THEN {} ELSE {SubSeq(f, k + 1, Len(f))}

(* ------------------------------ inputs --------------------------------- *)

MACOSX == <<"_","_","M","A","C","O","S","X">>

ZIP == <<"z","i","p">>

\* Values of --extension.
ExtArgs ==
    { <<".","T","X","T">>,
      <<"t","x">>,
      <<".">> }

\* Stored names of archive entries.
EntryNames ==
    { <<"x",".","t","x","t">>,
      <<"d","/","x",".","t","x","t">>,
      <<"X",".","T","X","T">>,
      <<"x",".","t","x","t","/",".">>,
      <<"y",".","t","x">>,
      <<"n",".","m","d">>,
      <<"n">>,
      <<"f",".">>,
      <<".","t","x","t">>,
      <<"d","/","_","_","M","A","C","O","S","X","/","x",".","t","x","t">>,
      <<"_","_","m","a","c","o","s","x","/","x",".","t","x","t">>,
      <<"d",".","t","x","t","/">>,
      <<"d","/",".",".">>,
      <<>> }

\* Decompressed byte streams of entries.
DataPool == { <<1>>, <<2>> }

\* ZipFile::is_dir is decided by the stored name: it ends with '/'.
IsDirName(n) == n # <<>> /\ n[Len(n)] = "/"

\* What archive.by_index(i) can yield.
Entries ==
    { [name |-> n, is_file |-> ~IsDirName(n), data |-> d] :
          n \in EntryNames, d \in DataPool }

\* What one iteration of fs::read_dir can yield (kind: what the path is).
DirItems ==
    { [name |-> <<"a",".","z","i","p">>, kind |-> "file"],
      [name |-> <<"b",".","Z","I","P">>, kind |-> "file"],
      [name |-> <<".","z","i","p">>,     kind |-> "file"],
      [name |-> <<"c",".","t","x","t">>, kind |-> "file"],
      [name |-> <<"z","i","p">>,         kind |-> "file"],
      [name |-> <<"d",".","z","i","p">>, kind |-> "dir"] }

\* Values of --input: a directory, a regular file, or neither.
Inputs ==
    { [name |-> <<"i","n">>, kind |-> "dir"],
      [name |-> <<"i","n">>, kind |-> "none"] }
    \cup { it \in DirItems : it.kind = "file" }

(* ------------------------------- state --------------------------------- *)

VARIABLES
    pc,             \* where main is: start, resolve, scan, extract, done
    ext_arg,        \* args.extension
    input,          \* args.input
    outputDir,      \* args.output on disk: "absent" or "exists"
    filter_ext,     \* filter_ext of main, None before it is computed
    examined,       \* main has tested args.input (is_dir / is_file)
    path,           \* the directory entry or input file at hand, or None
    called,         \* process_zip_file was called on path
    scanned,        \* iterations of read_dir so far
    len,            \* archive.len() of the open archive
    i,              \* index of the next entry
    zip_file,       \* the entry of the last iteration, or None
    outcome,        \* what the last step of process_zip_file did
    replaced,       \* bytes of the file the last File::create truncated
    archive,        \* last process_zip_file call: none, running, ok, err
    fs,             \* files of the output directory: file name -> bytes
    result,         \* what main returned: running, ok, err_*
    lastProcessed,  \* per file name, the last entry whose write was begun
    failed          \* some process_zip_file call returned Err

vars == <<pc, ext_arg, input, outputDir, filter_ext, examined, path, called,
          scanned, len, i, zip_file, outcome, replaced, archive, fs, result,
          lastProcessed, failed>>

Init ==
    /\ pc = "start"
    /\ ext_arg \in ExtArgs
    /\ input \in Inputs
    /\ outputDir \in {"absent", "exists"}
    /\ filter_ext = {}
    /\ examined = FALSE
    /\ path = {}
    /\ called = FALSE
    /\ scanned = 0
    /\ len = 0
    /\ i = 0
    /\ zip_file = {}
    /\ outcome = "none"
    /\ replaced = {}
    /\ archive = "none"
    /\ fs = <<>>
    /\ result = "running"
    /\ lastProcessed = <<>>
    /\ failed = FALSE

(* ------------------------------- main ---------------------------------- *)

\* NormalizeFilter without trim_start_matches: the leading dot is kept.
NormalizeFilter_KeepDot(e) == to_lowercase(e)

\* filter_ext: the --extension value without leading dots, in lower case.
NormalizeFilter(e) == to_lowercase(trim_start_matches(e, "."))

\* AfterCreateDir without the `?`: the result of create_dir_all is dropped.
AfterCreateDir_Ignored(ok) == [pc |-> "resolve", result |-> "running"]

\* What main does with the result of create_dir_all: `?` returns the error.
AfterCreateDir(ok) ==
    IF ok
    THEN [pc |-> "resolve", result |-> "running"]
    ELSE [pc |-> "done", result |-> "err_mkdir"]

\* IsZipPath with == "zip" in place of eq_ignore_ascii_case.
IsZipPath_CaseSensitive(item) ==
    /\ item.kind = "file"
    /\ \E x \in extension(item.name) : x = ZIP

\* The test main applies to a directory entry before it calls
\* process_zip_file on it.
IsZipPath(item) ==
    /\ item.kind = "file"
    /\ \E x \in extension(item.name) : eq_ignore_ascii_case(x, ZIP)

\* AfterCall with `?` on the call in the directory loop as well.
AfterCall_AlwaysPropagates(kind, ok) ==
    IF kind = "dir" /\ ok
    THEN [pc |-> "scan", result |-> "running"]
    ELSE [pc |-> "done", result |-> IF ok THEN "ok" ELSE "err_archive"]

\* AfterCall with the single-file call handled like the one in the loop:
\* the error is printed and main returns Ok.
AfterCall_NeverPropagates(kind, ok) ==
    IF kind = "dir"
    THEN [pc |-> "scan", result |-> "running"]
    ELSE [pc |-> "done", result |-> "ok"]

\* What main does when process_zip_file returns: in directory mode the
\* error is printed and the loop goes on, in single-file mode `?` returns it.
AfterCall(kind, ok) ==
    IF kind = "dir"
    THEN [pc |-> "scan", result |-> "running"]
    ELSE [pc |-> "done", result |-> IF ok THEN "ok" ELSE "err_archive"]

\* process_zip_file returns to main.
Return(ok) ==
    /\ archive' = IF ok THEN "ok" ELSE "err"
    /\ failed' = (failed \/ ~ok)
    /\ pc' = AfterCall(input.kind, ok).pc
    /\ result' = AfterCall(input.kind, ok).result

\* The call of process_zip_file on item, up to the first loop iteration:
\* File::open or ZipArchive::new fails, or the archive has n entries.
OpenArchive(item) ==
    /\ path' = {item}
    /\ called' = TRUE
    /\ zip_file' = {}
    /\ replaced' = {}
    /\ i' = 0
    /\ \E r \in {"open_err", "parse_err", "opened"} :
          /\ outcome' = r
          /\ IF r = "opened"
             THEN \E n \in 0..MaxEntries :
                      /\ len' = n
                      /\ IF n = 0
                         THEN Return(TRUE)
                         ELSE /\ archive' = "running"
                              /\ pc' = "extract"
                              /\ UNCHANGED <<failed, result>>
             ELSE /\ len' = 0
                  /\ Return(FALSE)

\* create_dir_all on the output path, then the filter is normalised.
Start ==
    /\ pc = "start"
    /\ \E ok \in {TRUE} \cup {b \in {FALSE} : outputDir = "absent"} :
          /\ outputDir' = IF ok THEN "exists" ELSE outputDir
          /\ pc' = AfterCreateDir(ok).pc
          /\ result' = AfterCreateDir(ok).result
          /\ filter_ext' = IF AfterCreateDir(ok).pc = "done"
                           THEN filter_ext
                           ELSE {NormalizeFilter(ext_arg)}
    /\ UNCHANGED <<ext_arg, input, examined, path, called, scanned, len, i,
                   zip_file, outcome, replaced, archive, fs, lastProcessed,
                   failed>>

\* The input path is a directory (read_dir is opened), a regular file
\* (process_zip_file is called on it), or neither (an error is returned).
Resolve ==
    /\ pc = "resolve"
    /\ examined' = TRUE
    /\ CASE input.kind = "dir" ->
              /\ \E ok \in BOOLEAN :
                    /\ pc' = IF ok THEN "scan" ELSE "done"
                    /\ result' = IF ok THEN result ELSE "err_readdir"
              /\ UNCHANGED <<path, called, len, i, zip_file, outcome,
                             replaced, archive, failed>>
         [] input.kind = "file" -> OpenArchive(input)
         [] OTHER ->
              /\ pc' = "done"
              /\ result' = "err_path"
              /\ UNCHANGED <<path, called, len, i, zip_file, outcome,
                             replaced, archive, failed>>
    /\ UNCHANGED <<ext_arg, input, outputDir, filter_ext, scanned, fs,
                   lastProcessed>>

\* One iteration of the loop over read_dir: the enumeration ends, fails, or
\* yields an item, which is processed when it is a regular *.zip file.
ScanNext ==
    /\ pc = "scan"
    /\ \/ /\ pc' = "done"
          /\ result' = "ok"
          /\ UNCHANGED <<path, called, scanned, len, i, zip_file, outcome,
                         replaced, archive, failed>>
       \/ /\ scanned < MaxItems
          /\ pc' = "done"
          /\ result' = "err_readdir"
          /\ UNCHANGED <<path, called, scanned, len, i, zip_file, outcome,
                         replaced, archive, failed>>
       \/ /\ scanned < MaxItems
          /\ scanned' = scanned + 1
          /\ \E item \in DirItems :
                IF IsZipPath(item)
                THEN OpenArchive(item)
                ELSE /\ path' = {item}
                     /\ called' = FALSE
                     /\ zip_file' = {}
                     /\ replaced' = {}
                     /\ outcome' = "none"
                     /\ len' = 0
                     /\ i' = 0
                     /\ UNCHANGED <<pc, archive, failed, result>>
    /\ UNCHANGED <<ext_arg, input, outputDir, filter_ext, examined, fs,
                   lastProcessed>>

(* -------------------------- process_zip_file --------------------------- *)

\* Selected with starts_with in place of == on the extension.
Selected_PrefixMatch(e, ext) ==
    /\ ~contains(e.name, MACOSX)
    /\ e.is_file
    /\ \E x \in extension(e.name) :
          /\ Len(ext) <= Len(x)
          /\ SubSeq(to_lowercase(x), 1, Len(ext)) = ext

\* The conditions under which the loop body reaches the file-name test:
\* not a __MACOSX name, a file entry, an extension equal to the filter.
Selected(e, ext) ==
    /\ ~contains(e.name, MACOSX)
    /\ e.is_file
    /\ \E x \in extension(e.name) : to_lowercase(x) = ext

\* OutputName with the stored name joined as it is.
OutputName_StoredPath(e) == e.name

\* output_dir.join(file_name): the file's name inside the output directory.
OutputName(e) == CHOOSE f \in file_name(e.name) : TRUE

\* The results of File::create and io::copy on an output file.
WriteResults == {"extracted", "create_err", "copy_err"}

\* CreateAndCopy with create_new: an existing file is left as it is.
CreateAndCopy_KeepExisting(files, name, data, w, k) ==
    IF w = "create_err" \/ name \in DOMAIN files THEN files
    ELSE [b \in DOMAIN files \cup {name} |->
             IF b = name
             THEN IF w = "copy_err" THEN SubSeq(data, 1, k) ELSE data
             ELSE files[b]]

\* File::create and io::copy on output file `name`: create fails (nothing
\* changes), the copy fails after k bytes, or the whole stream is written.
CreateAndCopy(files, name, data, w, k) ==
    IF w = "create_err" THEN files
    ELSE [b \in DOMAIN files \cup {name} |->
             IF b = name
             THEN IF w = "copy_err" THEN SubSeq(data, 1, k) ELSE data
             ELSE files[b]]

\* Propagates without the `?` on io::copy.
Propagates_CopyIgnored(o) == o \in {"access_err", "create_err"}

\* The results that `?` turns into a return from process_zip_file.
Propagates(o) == o \in {"access_err", "create_err", "copy_err"}

\* What the loop body does with entry e: "skipped", "warned", or a write
\* with one of the WriteResults (for "copy_err", after k bytes).
Handle(e) ==
    /\ zip_file' = {e}
    /\ IF ~Selected(e, CHOOSE x \in filter_ext : TRUE)
       THEN /\ outcome' = "skipped"
            /\ UNCHANGED <<fs, lastProcessed>>
            /\ replaced' = {}
       ELSE IF file_name(e.name) = {}
       THEN /\ outcome' = "warned"
            /\ UNCHANGED <<fs, lastProcessed>>
            /\ replaced' = {}
       ELSE \E w \in WriteResults :
            \E k \in IF w = "copy_err" THEN 0..Len(e.data) ELSE {0} :
               /\ outcome' = w
               /\ fs' = CreateAndCopy(fs, OutputName(e), e.data, w, k)
               /\ replaced' = IF w # "create_err"
                                 /\ OutputName(e) \in DOMAIN fs
                              THEN {fs[OutputName(e)]}
                              ELSE {}
               /\ lastProcessed' =
                    [b \in DOMAIN lastProcessed \cup {OutputName(e)} |->
                        IF b = OutputName(e)
                        THEN [data |-> e.data, ok |-> (w = "extracted")]
                        ELSE lastProcessed[b]]

\* One iteration of the loop over the entries: by_index fails, or the entry
\* is handled; an error returns at once, the last index returns Ok.
ProcessEntry ==
    /\ pc = "extract"
    /\ \/ /\ outcome' = "access_err"
          /\ zip_file' = {}
          /\ replaced' = {}
          /\ i' = i
          /\ UNCHANGED <<fs, lastProcessed>>
       \/ \E e \in Entries : Handle(e) /\ i' = IF Propagates(outcome') THEN i ELSE i + 1
    /\ IF Propagates(outcome') THEN Return(FALSE)
       ELSE IF i' = len THEN Return(TRUE)
       ELSE UNCHANGED <<pc, archive, failed, result>>
    /\ UNCHANGED <<ext_arg, input, outputDir, filter_ext, examined, path,
                   called, scanned, len>>

Next == Start \/ Resolve \/ ScanNext \/ ProcessEntry

Spec == Init /\ [][Next]_vars

(* ------------------- the vocabulary of the claims ---------------------- *)

\* The final path segment of a stored name: the last piece between '/'s
\* that names something.  A trailing '/' or '/.' names nothing, and a name
\* that is empty or ends in ".." has no final segment.
FinalSegment(p) ==
    { SubSeq(p, c[1], c[2]) :
        c \in { d \in (1..Len(p)) \X (1..Len(p)) :
                  /\ d[1] <= d[2]
                  /\ d[1] = 1 \/ p[d[1] - 1] = "/"
                  /\ d[2] = Len(p) \/ p[d[2] + 1] = "/"
                  /\ \A h \in d[1]..d[2] : p[h] # "/"
                  /\ SubSeq(p, d[1], d[2]) \notin {<<".">>, <<".", ".">>}
                  /\ \A h \in (d[2] + 1)..Len(p) :
                        /\ p[h] \in {"/", "."}
                        /\ h < Len(p) /\ p[h] = "." => p[h + 1] = "/" } }

\* The positions of the final '.' of f (none or one).
FinalDot(f) ==
    { k \in 1..Len(f) : f[k] = "." /\ \A h \in (k + 1)..Len(f) : f[h] # "." }

\* The extension as the specification words it: the substring after the
\* final '.' of the final path segment, if any.
StatedExtension(p) ==
    UNION { { SubSeq(f, k + 1, Len(f)) : k \in FinalDot(f) } :
            f \in FinalSegment(p) }

\* The extension with the exception the program makes: a segment whose only
\* '.' is its first character (".txt", ".zip") has no extension.
DotfileAwareExtension(p) ==
    UNION { { SubSeq(f, k + 1, Len(f)) : k \in FinalDot(f) \ {1} } :
            f \in FinalSegment(p) }

\* Two characters that differ at most by letter case.
SameLetter(c, d) ==
    c = d \/ \E k \in 1..26 : {c, d} = {UpperChars[k], LowerChars[k]}

\* Two strings that differ at most by letter case.
SameIgnoringCase(s, t) ==
    Len(s) = Len(t) /\ \A k \in 1..Len(s) : SameLetter(s[k], t[k])

\* An --extension value without its leading dot, if it has one.
WithoutLeadingDot(a) == IF a # <<>> /\ a[1] = "." THEN Tail(a) ELSE a

\* Two --extension values that differ only by a leading dot and/or case.
SameFilterSpelling(a, b) ==
    SameIgnoringCase(WithoutLeadingDot(a), WithoutLeadingDot(b))

\* Other spellings of --extension values, for runs compared with this one.
Spellings ==
    ExtArgs \cup
    { <<"t","x","t">>, <<".","t","x","t">>, <<"T","X","T">>,
      <<"T","x","t">>, <<".","t","X">>, <<"T","X">>, <<>> }

\* An iteration of process_zip_file ended in an error: by_index,
\* File::create or io::copy failed.
EntryFailed(o) == o \in {"access_err", "create_err", "copy_err"}

\* process_zip_file has begun to write the entry (File::create was called).
WriteBegun(o) == o \in {"extracted", "create_err", "copy_err"}

\* The entry passes the filter, with the extension taken by ext.
Qualifies(e, x, flt) ==
    /\ e.is_file
    /\ ~contains(e.name, MACOSX)
    /\ \E y \in x : to_lowercase(y) = flt

(* ------------------------------ claims --------------------------------- *)

\* C1 as stated: in every iteration of process_zip_file the entry is
\* written if and only if it is a file entry, its name does not contain
\* "__MACOSX", and the lower-cased extension of its final path segment (the
\* substring after the segment's final '.') equals the normalized filter;
\* an entry that is not written leaves the output directory as it was.
C1_WrittenIffQualifies_Stated ==
    [][pc = "extract" =>
         \A e \in zip_file' : \A flt \in filter_ext :
            /\ WriteBegun(outcome') <=>
                   Qualifies(e, StatedExtension(e.name), flt)
            /\ ~Qualifies(e, StatedExtension(e.name), flt) => fs' = fs]_vars

\* C1 as amended: the same, where a final segment whose only '.' is its
\* first character (".txt") counts as having no extension.
C1_WrittenIffQualifies ==
    [][pc = "extract" =>
         \A e \in zip_file' : \A flt \in filter_ext :
            /\ WriteBegun(outcome') <=>
                   Qualifies(e, DotfileAwareExtension(e.name), flt)
            /\ ~Qualifies(e, DotfileAwareExtension(e.name), flt)
                   => fs' = fs]_vars

\* The dotfile ".txt" was skipped under filter "txt" after another entry of
\* the run was written.
C1_Witness ==
    /\ filter_ext = {<<"t","x","t">>}
    /\ outcome = "skipped"
    /\ \E e \in zip_file : e.name = <<".","t","x","t">> /\ e.is_file
    /\ \E b \in DOMAIN fs : fs[b] \in DataPool

\* C2: for every output file name, when the write of the entry processed
\* last under that name completed, the file holds exactly that entry's
\* bytes, whatever earlier entries (of this or an earlier archive) wrote
\* there; entries are processed in index order, archives in enumeration
\* order, and a name maps to one file.
C2_LastProcessedWins ==
    \A b \in DOMAIN lastProcessed :
        lastProcessed[b].ok => b \in DOMAIN fs /\ fs[b] = lastProcessed[b].data

\* The first entry of a second archive replaced, without error, a file
\* that held the different bytes of an entry of the first archive.
C2_Witness ==
    /\ scanned >= 2
    /\ i = 1
    /\ outcome = "extracted"
    /\ \E e \in zip_file : \E old \in replaced :
          /\ old \in DataPool
          /\ old # e.data
          /\ \E b \in DOMAIN fs : fs[b] = e.data /\ lastProcessed[b].ok

\* C3: in directory mode a failed process_zip_file call neither ends the run
\* nor sets its result: after it main is back in the read_dir loop, every
\* regular *.zip file the enumeration yields is still passed to
\* process_zip_file, and the run ends with Ok (exit status zero) unless the
\* enumeration itself fails.
C3_FailuresIsolatedPerArchive ==
    input.kind = "dir" =>
        /\ result # "err_archive"
        /\ archive = "err" => pc \in {"scan", "done"}
        /\ failed /\ pc = "done" => result \in {"ok", "err_readdir"}
        /\ failed =>
             \A item \in path :
                 ( /\ item.kind = "file"
                   /\ \E x \in DotfileAwareExtension(item.name) :
                          SameIgnoringCase(x, ZIP) ) => called

\* A directory run ended with Ok after one archive failed and a later one
\* was processed to its end.
C3_Witness ==
    /\ input.kind = "dir"
    /\ pc = "done"
    /\ result = "ok"
    /\ failed
    /\ archive = "ok"
    /\ len > 0

\* C4: in single-file mode main returns an error (non-zero exit status)
\* exactly when process_zip_file returned one, and when the file cannot be
\* opened or parsed as an archive nothing is written: the output directory
\* exists and holds no file.
C4_SingleFileErrorPropagates ==
    (input.kind = "file" /\ pc = "done" /\ examined) =>
        /\ archive = "err" <=> result = "err_archive"
        /\ archive = "ok" <=> result = "ok"
        /\ EntryFailed(outcome) => archive = "err"
        /\ outcome \in {"open_err", "parse_err"} =>
               archive = "err" /\ fs = <<>> /\ outputDir = "exists"

\* A single-file run on a file that is no archive ended with the error.
C4_Witness ==
    /\ input.kind = "file"
    /\ pc = "done"
    /\ outcome = "parse_err"
    /\ result = "err_archive"
    /\ fs = <<>>

\* C5: the output directory exists whenever the input path has been
\* examined, an archive opened or a write begun; an input path that is
\* neither a directory nor a regular file ends the run with an error, no
\* archive opened and no file written, the output directory created; a
\* failure to create the output directory ends the run before the input
\* path is examined.
C5_OutputDirFirst ==
    /\ (examined \/ called \/ fs # <<>> \/ WriteBegun(outcome)
           \/ pc \in {"resolve", "scan", "extract"})
          => outputDir = "exists"
    /\ (input.kind = "none" /\ pc = "done" /\ result # "err_mkdir") =>
          /\ result = "err_path"
          /\ examined /\ ~called /\ path = {} /\ fs = <<>>
          /\ outputDir = "exists"
    /\ outputDir = "absent" /\ pc = "done" =>
          result = "err_mkdir" /\ ~examined /\ ~called /\ fs = <<>>
    /\ result = "err_mkdir" => pc = "done" /\ outputDir = "absent"

\* A run on an input path that is neither directory nor file ended with
\* the path error and the output directory created.
C5_Witness ==
    /\ input.kind = "none"
    /\ pc = "done"
    /\ result = "err_path"
    /\ outputDir = "exists"

\* C6: every file of the output directory sits directly in it (its name is
\* one plain path segment), and after an entry was extracted the file named
\* by the final path segment of the entry's stored name holds the entry's
\* whole byte stream.
C6_FlatOutputFullContent ==
    /\ \A b \in DOMAIN fs :
          /\ b \notin {<<>>, <<".">>, <<".", ".">>}
          /\ \A h \in 1..Len(b) : b[h] # "/"
    /\ outcome = "extracted" =>
          \A e \in zip_file : \E f \in FinalSegment(e.name) :
              f \in DOMAIN fs /\ fs[f] = e.data

\* The entry "d/x.txt" was extracted to the file "x.txt".
C6_Witness ==
    /\ outcome = "extracted"
    /\ \E e \in zip_file :
          /\ e.name = <<"d","/","x",".","t","x","t">>
          /\ fs[<<"x",".","t","x","t">>] = e.data

\* C7: a run computes the same filter from every spelling of its
\* --extension value that differs by a leading dot and/or letter case, so
\* it writes the same files; and an entry qualifies when its extension and
\* any such spelling differ by letter case only.
C7_FilterSpellingIrrelevant ==
    \A flt \in filter_ext : \A a \in Spellings :
        SameFilterSpelling(a, ext_arg) =>
            /\ NormalizeFilter(a) = flt
            /\ \A e \in zip_file :
                  WriteBegun(outcome) <=>
                      /\ e.is_file
                      /\ ~contains(e.name, MACOSX)
                      /\ \E x \in DotfileAwareExtension(e.name) :
                            SameIgnoringCase(x, WithoutLeadingDot(a))

\* Under --extension ".TXT" the entry x.txt was extracted.
C7_Witness ==
    /\ ext_arg = <<".","T","X","T">>
    /\ outcome = "extracted"
    /\ \E e \in zip_file : e.name = <<"x",".","t","x","t">>

\* C8 as stated: in directory mode process_zip_file is called on a
\* directory entry if and only if it is a regular file whose extension (the
\* substring after the final '.' of its name) is "zip" in any letter case;
\* in single-file mode it is called on the input path and nothing else.
C8_InputResolution_Stated ==
    /\ input.kind = "dir" =>
          \A item \in path :
              called <=> ( /\ item.kind = "file"
                           /\ \E x \in StatedExtension(item.name) :
                                  SameIgnoringCase(x, ZIP) )
    /\ (input.kind = "file" /\ examined) =>
          path = {input} /\ called /\ scanned = 0

\* C8 as amended: the same, where a name whose only '.' is its first
\* character (".zip") counts as having no extension.
C8_InputResolution ==
    /\ input.kind = "dir" =>
          \A item \in path :
              called <=> ( /\ item.kind = "file"
                           /\ \E x \in DotfileAwareExtension(item.name) :
                                  SameIgnoringCase(x, ZIP) )
    /\ (input.kind = "file" /\ examined) =>
          path = {input} /\ called /\ scanned = 0
    /\ input.kind = "none" => path = {} /\ ~called

\* In a directory run the regular file ".zip" was passed over after the
\* archive before it had been processed.
C8_Witness ==
    /\ input.kind = "dir"
    /\ \E item \in path : item.name = <<".","z","i","p">>
    /\ ~called
    /\ archive = "ok"
    /\ scanned = 2

\* C9 as stated: when by_index, File::create or io::copy fails on entry i,
\* process_zip_file returns at once (no later entry of the archive is
\* handled in that call) and every file already in the output directory is
\* left unchanged.
C9_FailureAbortsArchive_Stated ==
    [][(pc = "extract" /\ EntryFailed(outcome')) =>
          /\ pc' # "extract"
          /\ i' = i
          /\ \A b \in DOMAIN fs : b \in DOMAIN fs' /\ fs'[b] = fs[b]]_vars

\* C9 as amended: the same, except that a failure of io::copy leaves the
\* output file of entry i itself truncated or partly written, also when an
\* earlier entry with the same file name had written it.
C9_FailureAbortsArchive ==
    [][(pc = "extract" /\ EntryFailed(outcome')) =>
          /\ pc' # "extract"
          /\ i' = i
          /\ outcome' # "copy_err" => fs' = fs
          /\ \A b \in DOMAIN fs :
                /\ b \in DOMAIN fs'
                /\ (\A e \in zip_file' : b \notin FinalSegment(e.name))
                      => fs'[b] = fs[b]]_vars

\* In a second archive the copy of the first entry failed with a further
\* entry left, after it had truncated a file written from the first archive.
C9_Witness ==
    /\ outcome = "copy_err"
    /\ scanned >= 2
    /\ i + 1 < len
    /\ archive = "err"
    /\ pc # "extract"
    /\ \E old \in replaced : old \in DataPool

\* C10 as stated: a file entry outside __MACOSX whose stored name has no
\* final path segment gets the warning, is not written, and the loop goes on
\* without an error.
C10_NamelessEntryWarned ==
    \A e \in zip_file :
        (e.is_file /\ ~contains(e.name, MACOSX) /\ FinalSegment(e.name) = {})
            => outcome = "warned"

=============================================================================
